---- MODULE Spec2Model ----
(***************************************************************************)
(* A model of the MiniLuma agent core: the Reactor reason-act-observe     *)
(* loop (core/reactor.py), the tool registries (core/mcp.py,              *)
(* tools/base.py), the conversation Context (core/context.py) and the     *)
(* two-tier memory manager (core/mcp_memory.py).                           *)
(***************************************************************************)
EXTENDS Integers, Sequences, FiniteSets, TLC

VARIABLES
    \* ---- Reactor (core/reactor.py) ----
    max_iterations,     \* Reactor.max_iterations
    pc,                 \* position of Reactor.process: idle, loop, returned, raised
    iterations,         \* context["iterations"]
    observations,       \* context["observations"]
    complete,           \* context["complete"]
    final_response,     \* context["final_response"]
    iteration_history,  \* Reactor.iteration_history
    llm_calls,          \* number of llm.generate invocations made by the run
    reason_calls,       \* number of _reason invocations made by the run
    tool_calls,         \* number of tool callables invoked by the run
    last,               \* what the most recent step of the run did
    \* ---- tool registries (core/mcp.py, tools/base.py) ----
    toolkit_tools,      \* MCPToolKit.tools: name -> MCPTool
    registry_tools,     \* ToolRegistry.tools: name -> Tool
    toolkit_first,      \* per name, the first tool a register_tool call returned for it
    registry_first,     \* per name, the first tool a register call accepted for it
    reg_last,           \* the most recent registration call and how it ended
    \* ---- Context (core/context.py) ----
    max_history,        \* Context.max_history
    history,            \* Context.history
    added,              \* every message passed to add_message, in call order
    \* ---- MCPMemoryManager / SqliteMemory (core/mcp_memory.py) ----
    clock,              \* time.time(), in ticks
    llm_service,        \* whether MCPMemoryManager.llm_service is set
    working_memory,     \* MCPMemoryManager.working_memory
    memories,           \* table memories: id -> row
    memory_index,       \* table memory_index: rows (id, content, tags)
    remember_calls,     \* number of remember calls made (names the dict each call creates)
    cons_pc,            \* position of consolidate: idle, running, done, raised
    cons_snapshot,      \* the copy working_memory[:] consolidate iterates over
    cons_i,             \* index in cons_snapshot of the next item
    cons_added,         \* the long_term_memory.add calls consolidate has made
    mem_last,           \* the most recent memory call and how it ended
    \* ---- a second consolidate call, run as asyncio.create_task(consolidate()) ----
    task_pc,            \* position of the task: idle, running, done, raised
    task_snapshot,      \* its copy working_memory[:]
    task_i,             \* index in task_snapshot of the next item
    task_added,         \* the long_term_memory.add calls the task has made
    \* ---- MCPSystem (core/mcp_system.py) ----
    sys_max_iterations, \* MCPSystem.max_iterations
    sys_pc,             \* position of MCPSystem.process: idle, loop, gather, leave, returned, raised
    current_plan,       \* execution_state["current_plan"]["tasks"]
    completed_tasks,    \* execution_state["completed_tasks"]
    pending_tasks,      \* execution_state["pending_tasks"]
    sys_status,         \* execution_state["status"]
    sys_iteration,      \* the local iteration of process
    next_tasks,         \* the batch handed to asyncio.gather, as positions in the plan
    batch_state,        \* per batch position: new, running or done
    started_steps,      \* positions in the plan of the steps execute_task was called for
    sys_result,         \* the status process returned
    \* ---- MCPMemoryManager.retrieve ----
    retrieved,          \* the list the most recent retrieve returned
    \* ---- MCPTool (core/mcp.py) ----
    parameters,         \* MCPTool.parameters of one tool: name -> info
    schemas,            \* the schemas its get_schema calls returned, in call order
    \* ---- SqliteMemory.update (core/mcp_memory.py) ----
    upd_pc,             \* position of an update call: idle, or selected (row read, not yet written)
    upd_call,           \* the id and the new content of the update call under way
    \* ---- the agents of an MCPSystem running one batch (core/mcp_system.py, core/mcp.py) ----
    agent_batch,        \* the agent_role of each task handed to asyncio.gather
    agent_state,        \* per task of the batch: new, suspended (in llm.generate) or done
    agent_sent,         \* per task of the batch: the messages its llm.generate call was given
    conversation_history, \* MCPProtocol.conversation_history of each agent
    \* ---- one MCPProtocol.generate_response call (core/mcp.py) ----
    gen_pc,             \* idle, awaiting (in llm.generate), returned or raised
    gen_depth,          \* number of nested generate_response calls under way
    gen_calls,          \* number of llm.generate invocations made for the user input
    gen_history,        \* conversation_history of this protocol
    gen_result          \* what the call returned: answer, invalid or error

reactorVars == <<max_iterations, pc, iterations, observations, complete,
                 final_response, iteration_history, llm_calls, reason_calls,
                 tool_calls, last>>

registryVars == <<toolkit_tools, registry_tools, toolkit_first, registry_first, reg_last>>

contextVars == <<max_history, history, added>>

taskVars == <<task_pc, task_snapshot, task_i, task_added>>

memoryVars == <<clock, llm_service, working_memory, memories, memory_index,
                remember_calls, cons_pc, cons_snapshot, cons_i, cons_added, mem_last,
                taskVars>>

systemVars == <<sys_max_iterations, sys_pc, current_plan, completed_tasks, pending_tasks,
                sys_status, sys_iteration, next_tasks, batch_state, started_steps,
                sys_result>>

\* the state of the components added after the first four
schemaVars == <<parameters, schemas>>

storeVars == <<upd_pc, upd_call>>

\* the state of the components added last
agentVars == <<agent_batch, agent_state, agent_sent, conversation_history>>

protocolVars == <<gen_pc, gen_depth, gen_calls, gen_history, gen_result>>

laterVars == <<storeVars, agentVars, protocolVars>>

moreVars == <<systemVars, retrieved, schemaVars, laterVars>>

vars == <<reactorVars, registryVars, contextVars, memoryVars, moreVars>>

\* ---------------------------------------------------------------------------
\* Bounds of the model
\* ---------------------------------------------------------------------------
MaxIterations == 3
\* number of distinct callables offered for registration
NumFuncs == 2
\* largest max_history a Context is built with
MaxHistory == 3
\* number of add_message calls in a behaviour
MaxAdded == 4
\* last tick of the clock
MaxClock == 1
\* clock ticks per second of time.time()
TicksPerSecond == 2
\* number of remember calls in a behaviour
MaxRemember == 3
\* MCPMemoryManager.working_memory_capacity (10 in the source), scaled down
working_memory_capacity == 2
\* largest limit retrieve is called with
MaxLimit == 2
\* number of get_schema calls in a behaviour
MaxSchemaCalls == 3
\* largest max_iterations an MCPSystem is built with
MaxSysIterations == 4
\* seconds of time.time() a behaviour of the eviction specification spans
MaxSeconds == 3
\* largest number of tasks in one batch of the scheduler
MaxBatch == 3
\* the interpreter's limit on nested calls (sys.getrecursionlimit()), scaled
\* down: the number of generate_response calls that fit on the stack
RecursionLimit == 3
\* largest number of tool calls in one model answer
MaxToolCalls == 2

\* ---------------------------------------------------------------------------
\* Python helpers
\* ---------------------------------------------------------------------------
\* Python's None, for values that are otherwise strings.
None == "<None>"

\* dict.get(key, default)
Get(d, key, default) == IF key \in DOMAIN d THEN d[key] ELSE default

\* ---------------------------------------------------------------------------
\* Reactor: the model outputs it may be fed
\* ---------------------------------------------------------------------------
C_TEXT         == "The answer is 4"
C_TOOL         == "{\"action_type\": \"tool_use\", \"tool_name\": \"calculator\", \"tool_params\": {}}"
C_TOOL_ALIAS   == "{\"action_type\": \"tool_use\", \"tool\": \"get_weather\", \"parameters\": {}}"
C_TOOL_UNKNOWN == "{\"action_type\": \"tool_use\", \"tool_name\": \"search\", \"tool_params\": {}}"
C_TOOL_NONAME  == "{\"action_type\": \"tool_use\"}"
C_FINAL        == "{\"action_type\": \"final_response\", \"response\": \"4\"}"
C_FINAL_NORESP == "{\"action_type\": \"final_response\"}"
C_OTHER        == "{\"action_type\": \"ask_user\"}"
C_ARRAY        == "[1, 2]"

Contents == {C_TEXT, C_TOOL, C_TOOL_ALIAS, C_TOOL_UNKNOWN, C_TOOL_NONAME,
             C_FINAL, C_FINAL_NORESP, C_OTHER, C_ARRAY}

\* What llm.generate can do: raise, answer something that is not a dict,
\* answer a dict without choices, or answer a message whose content is a
\* string or null.
LLMResponses ==
    {[t |-> "raise"], [t |-> "not_dict"], [t |-> "no_choices"]}
    \cup {[t |-> "message", content |-> c] : c \in Contents \cup {None}}

\* What a registered tool callable can do when invoked.
ToolOutcomes == {"ok", "raise"}

\* Reactor.tools of the simple assistant: name -> value the callable returns.
tools == [calculator |-> "4", get_weather |-> "sunny"]

\* json.loads on the contents above (json.loads(None) raises TypeError, any
\* text that is not JSON raises JSONDecodeError).
json_loads(content) ==
    CASE content = None -> [exc |-> "TypeError"]
      [] content = C_TOOL ->
            [exc |-> "", jtype |-> "dict",
             value |-> [action_type |-> "tool_use", tool_name |-> "calculator", tool_params |-> "{}"]]
      [] content = C_TOOL_ALIAS ->
            [exc |-> "", jtype |-> "dict",
             value |-> [action_type |-> "tool_use", tool |-> "get_weather", parameters |-> "{}"]]
      [] content = C_TOOL_UNKNOWN ->
            [exc |-> "", jtype |-> "dict",
             value |-> [action_type |-> "tool_use", tool_name |-> "search", tool_params |-> "{}"]]
      [] content = C_TOOL_NONAME ->
            [exc |-> "", jtype |-> "dict", value |-> [action_type |-> "tool_use"]]
      [] content = C_FINAL ->
            [exc |-> "", jtype |-> "dict",
             value |-> [action_type |-> "final_response", response |-> "4"]]
      [] content = C_FINAL_NORESP ->
            [exc |-> "", jtype |-> "dict", value |-> [action_type |-> "final_response"]]
      [] content = C_OTHER ->
            [exc |-> "", jtype |-> "dict", value |-> [action_type |-> "ask_user"]]
      [] content = C_ARRAY ->
            [exc |-> "", jtype |-> "list", value |-> [items |-> "1, 2"]]
      [] OTHER -> [exc |-> "JSONDecodeError"]

\* Reactor._reason, lines 173-179: the content taken out of the llm response.
ExtractContent(resp) ==
    IF resp.t = "message" THEN resp.content ELSE ""

\* _reason with the JSONDecodeError handler lost (fail-closed parsing).
_reason_failclosed(resp) ==
    IF resp.t = "raise"
    THEN [raised |-> TRUE]
    ELSE LET parsed == json_loads(ExtractContent(resp))
         IN  IF parsed.exc # ""
             THEN [raised |-> TRUE]
             ELSE [raised |-> FALSE, jtype |-> parsed.jtype, thought |-> parsed.value]

\* Reactor._reason: the thought it returns, or the exception it lets through.
\* Only json.JSONDecodeError is caught (lines 182-193).
_reason(resp) ==
    IF resp.t = "raise"
    THEN [raised |-> TRUE]
    ELSE LET content == ExtractContent(resp)
             parsed  == json_loads(content)
         IN  IF parsed.exc = "JSONDecodeError"
             THEN [raised |-> FALSE, jtype |-> "dict",
                   thought |-> [action_type |-> "final_response", response |-> content]]
             ELSE IF parsed.exc # ""
             THEN [raised |-> TRUE]
             ELSE [raised |-> FALSE, jtype |-> parsed.jtype, thought |-> parsed.value]

\* Reactor._execute_tool, lines 243-246: the tool name under either alias.
ToolNameOf(thought) ==
    IF "tool_name" \in DOMAIN thought
    THEN thought.tool_name
    ELSE Get(thought, "tool", "")

\* _execute_tool with the failure of the callable reported as its result.
_execute_tool_wrapped(thought, outcome) ==
    LET tool_name == ToolNameOf(thought)
    IN  IF tool_name \notin DOMAIN tools
        THEN [invoked |-> FALSE,
              observation |-> [error |-> "Tool '" \o tool_name \o "' not found",
                               available_tools |-> DOMAIN tools]]
        ELSE [invoked |-> TRUE,
              observation |-> [result |-> IF outcome = "raise" THEN "boom" ELSE tools[tool_name],
                               success |-> TRUE]]

\* _execute_tool without the registry check of lines 255-259: the lookup
\* fails inside the try block and is reported like a failing tool.
_execute_tool_nocheck(thought, outcome) ==
    LET tool_name == ToolNameOf(thought)
    IN  IF tool_name \notin DOMAIN tools \/ outcome = "raise"
        THEN [invoked |-> tool_name \in DOMAIN tools,
              observation |-> [error |-> "Error executing tool " \o tool_name \o ": boom",
                               success |-> FALSE]]
        ELSE [invoked |-> TRUE,
              observation |-> [result |-> tools[tool_name], success |-> TRUE]]

\* Reactor._execute_tool: the observation, and whether the callable was invoked.
_execute_tool(thought, outcome) ==
    LET tool_name == ToolNameOf(thought)
    IN  IF tool_name \notin DOMAIN tools
        THEN [invoked |-> FALSE,
              observation |-> [error |-> "Tool '" \o tool_name \o "' not found",
                               available_tools |-> DOMAIN tools]]
        ELSE IF outcome = "raise"
        THEN [invoked |-> TRUE,
              observation |-> [error |-> "Error executing tool " \o tool_name \o ": boom",
                               success |-> FALSE]]
        ELSE [invoked |-> TRUE,
              observation |-> [result |-> tools[tool_name], success |-> TRUE]]

\* Reactor._generate_timeout_response, lines 414-421.
DefaultTimeoutText == "sorry, cannot complete this request"
_generate_timeout_response(resp) ==
    IF resp.t = "raise" THEN [raised |-> TRUE]
    ELSE IF resp.t = "message" THEN [raised |-> FALSE, text |-> resp.content]
    ELSE [raised |-> FALSE, text |-> DefaultTimeoutText]

\* ---------------------------------------------------------------------------
\* Tool registries
\* ---------------------------------------------------------------------------
RegNames == {"calculator", "get_weather", "search"}
Funcs == 1..NumFuncs

\* dict with d[key] = value set
Put(d, key, value) == [k \in DOMAIN d \cup {key} |-> IF k = key THEN value ELSE d[k]]
EmptyDict == [k \in {} |-> None]

\* What register_tool may be handed: an MCPTool, or a callable with an
\* optional name argument (None: the callable's __name__ is used).
ToolKitInputs ==
    {[kind |-> "MCPTool", name |-> n, func |-> f, name_arg |-> None] :
        n \in RegNames, f \in Funcs}
    \cup {[kind |-> "callable", name |-> n, func |-> f, name_arg |-> a] :
        n \in RegNames, f \in Funcs, a \in {None, "search"}}

\* MCPToolKit.register_tool, lines 149-152: a callable is wrapped as MCPTool.
AsMCPTool(tool) ==
    IF tool.kind = "callable"
    THEN [name |-> IF tool.name_arg # None THEN tool.name_arg ELSE tool.name,
          func |-> tool.func]
    ELSE [name |-> tool.name, func |-> tool.func]

\* register_tool with the check for an existing name lost.
MCPToolKit_register_tool_overwrite(tk, tool) ==
    LET t == AsMCPTool(tool)
    IN  [raised |-> "", tools |-> Put(tk, t.name, t), tool |-> t]

\* MCPToolKit.register_tool: the exception raised ("" for none), the
\* registry afterwards and the tool returned.
MCPToolKit_register_tool(tk, tool) ==
    LET t == AsMCPTool(tool)
    IN  IF t.name \in DOMAIN tk
        THEN [raised |-> "ValueError", tools |-> tk, tool |-> t]
        ELSE [raised |-> "", tools |-> Put(tk, t.name, t), tool |-> t]

\* What ToolRegistry.register may be handed: a Tool instance, a function
\* decorated with @tool, or anything else.
RegistryInputs ==
    {[kind |-> k, name |-> n, func |-> f] :
        k \in {"Tool", "decorated"}, n \in RegNames, f \in Funcs}
    \cup {[kind |-> "plain", name |-> "search", func |-> 1]}

\* ToolRegistry.register
ToolRegistry_register(reg, tool) ==
    LET t == [name |-> tool.name, func |-> tool.func]
    IN  IF tool.kind \notin {"Tool", "decorated"}
        THEN [raised |-> "TypeError", tools |-> reg, tool |-> t]
        ELSE IF t.name \in DOMAIN reg
        THEN [raised |-> "ValueError", tools |-> reg, tool |-> t]
        ELSE [raised |-> "", tools |-> Put(reg, t.name, t), tool |-> t]

\* The first tool accepted for each name, kept from the calls' outcomes.
NoteFirst(first, r) ==
    IF r.raised = "" /\ r.tool.name \notin DOMAIN first
    THEN Put(first, r.tool.name, r.tool)
    ELSE first

RegistryInit ==
    /\ toolkit_tools = EmptyDict
    /\ registry_tools = EmptyDict
    /\ toolkit_first = EmptyDict
    /\ registry_first = EmptyDict
    /\ reg_last = [op |-> "none"]

\* MCPToolKit.register_tool(tool, name)
register_tool ==
    \E tool \in ToolKitInputs :
        LET r == MCPToolKit_register_tool(toolkit_tools, tool) IN
        /\ toolkit_tools' = r.tools
        /\ toolkit_first' = NoteFirst(toolkit_first, r)
        /\ reg_last' = [op |-> "register_tool", tool |-> r.tool, raised |-> r.raised,
                        present |-> r.tool.name \in DOMAIN toolkit_tools]
        /\ UNCHANGED <<registry_tools, registry_first, reactorVars, contextVars, memoryVars, moreVars>>

\* ToolRegistry.register(tool)
register ==
    \E tool \in RegistryInputs :
        LET r == ToolRegistry_register(registry_tools, tool) IN
        /\ registry_tools' = r.tools
        /\ registry_first' = NoteFirst(registry_first, r)
        /\ reg_last' = [op |-> "register", tool |-> r.tool, raised |-> r.raised,
                        present |-> r.tool.name \in DOMAIN registry_tools]
        /\ UNCHANGED <<toolkit_tools, toolkit_first, reactorVars, contextVars, memoryVars, moreVars>>

NextRegistry == register_tool \/ register

\* ---------------------------------------------------------------------------
\* Context
\* ---------------------------------------------------------------------------
Roles == {"system", "user", "assistant"}
Texts == {"a", "b"}
Messages == [role : Roles, content : Texts]

\* Python's seq[start:] : a negative start counts from the end, and every
\* start is clamped to the sequence.
PySliceFrom(seq, start) ==
    LET n == Len(seq)
        s == IF start < 0
             THEN (IF start + n < 0 THEN 0 ELSE start + n)
             ELSE (IF start > n THEN n ELSE start)
    IN  SubSeq(seq, s + 1, n)

\* Context.add_message: the history afterwards.
Context_add_message(h, n, msg) ==
    LET appended == Append(h, msg)
    IN  IF Len(appended) > n
        THEN PySliceFrom(appended, -n)
        ELSE appended

ContextStart(N) ==
    /\ max_history \in N
    /\ history = << >>
    /\ added = << >>

ContextInit == ContextStart(0..MaxHistory)
\* the assistants' Context(max_history=10), at rest
ContextIdle == ContextStart({10})

\* Context.add_message(role, content)
add_message ==
    /\ Len(added) < MaxAdded
    /\ \E msg \in Messages :
        /\ history' = Context_add_message(history, max_history, msg)
        /\ added' = Append(added, msg)
    /\ UNCHANGED <<max_history, reactorVars, registryVars, memoryVars, moreVars>>

NextContext == add_message

\* ---------------------------------------------------------------------------
\* Memory manager
\* ---------------------------------------------------------------------------
\* Importance is counted in tenths: 7 stands for 0.7.
NoImportance == -1
Importances == {5, 7, 8}
LongTermThreshold == 7
ConsolidateThreshold == 5
DefaultRowImportance == 5
\* the texts remembered
MemContents == {"note a", "note b"}

\* (long_term, importance) pairs remember is called with
RememberArgs ==
    {[long_term |-> FALSE, importance |-> i] : i \in Importances \cup {NoImportance}}
    \cup {[long_term |-> TRUE, importance |-> NoImportance]}

\* int(time.time())
Seconds(now) == now \div TicksPerSecond

\* f"{prefix}_{int(time.time())}_{hash(str(content))}"
MakeId(prefix, now, content) == [prefix |-> prefix, time |-> Seconds(now), hash |-> content]

\* SqliteMemory.generate_memory_id
generate_memory_id(now, content) == MakeId("mem", now, content)

\* SqliteMemory.add, lines 175-176: the metadata dict gets its time stamps.
Stamped(metadata, now) ==
    [k \in DOMAIN metadata \cup {"created_at", "updated_at"} |->
        IF k \in {"created_at", "updated_at"} THEN now ELSE metadata[k]]

\* SqliteMemory.add: one transaction inserting the row and its index entry;
\* a second row under an existing id violates the primary key and the
\* transaction is rolled back.
SqliteMemory_add(mem, idx, content, metadata, now) ==
    LET memory_id == generate_memory_id(now, content)
        md == Stamped(metadata, now)
        row == [content |-> content, metadata |-> md, created_at |-> now,
                updated_at |-> now,
                importance |-> Get(md, "importance", DefaultRowImportance),
                tags |-> ""]
    IN  IF memory_id \in DOMAIN mem
        THEN [raised |-> "IntegrityError", memories |-> mem, memory_index |-> idx,
              id |-> memory_id, metadata |-> md]
        ELSE [raised |-> "", memories |-> Put(mem, memory_id, row),
              memory_index |-> idx \cup {[id |-> memory_id, content |-> content, tags |-> ""]},
              id |-> memory_id, metadata |-> md]

\* The sort key of lines 564-565, importance*10 + timestamp, in ticks.
Score(m) ==
    Get(m.metadata, "importance", 0) * TicksPerSecond + Get(m.metadata, "timestamp", 0)

\* list.sort(key=Score): stable, ascending
InsertSorted(sorted, x) ==
    LET k == Cardinality({i \in 1..Len(sorted) : Score(sorted[i]) <= Score(x)})
    IN  SubSeq(sorted, 1, k) \o <<x>> \o SubSeq(sorted, k + 1, Len(sorted))
RECURSIVE SortByScore(_)
SortByScore(seq) ==
    IF seq = << >> THEN << >>
    ELSE InsertSorted(SortByScore(SubSeq(seq, 1, Len(seq) - 1)), seq[Len(seq)])

\* The test of line 561 letting one entry more through.
OverCapacityLax(wm) == Len(wm) > working_memory_capacity + 1

\* MCPMemoryManager.remember, line 561: the list is over its capacity.
OverCapacity(wm) == Len(wm) > working_memory_capacity

\* The capacity limit dropping the oldest entry instead of the lowest key.
LimitCapacityFifo(wm) ==
    IF Len(wm) > working_memory_capacity
    THEN Tail(wm)
    ELSE wm

\* MCPMemoryManager.remember, lines 560-567: the capacity limit.
LimitCapacity(wm) ==
    IF OverCapacity(wm)
    THEN Tail(SortByScore(wm))
    ELSE wm

\* The routing test of line 549 with >= for >.
GoesLongTermInclusive(long_term, importance) ==
    long_term \/ (importance # NoImportance /\ importance >= LongTermThreshold)

\* MCPMemoryManager.remember, line 549
GoesLongTerm(long_term, importance) ==
    long_term \/ (importance # NoImportance /\ importance > LongTermThreshold)

\* The test of lines 660-663 with >= for >.
IsImportantInclusive(memory) ==
    Get(memory.metadata, "importance", 0) >= ConsolidateThreshold

\* MCPMemoryManager.consolidate, lines 660-663
IsImportant(memory) ==
    Get(memory.metadata, "importance", 0) > ConsolidateThreshold

\* dict equality of two working-memory entries (oid names the dict object)
PyEq(a, b) == a.id = b.id /\ a.content = b.content /\ a.metadata = b.metadata

\* list.index(x): the first position holding x itself or an equal dict, 0 if none
IndexOf(seq, x) ==
    LET hits == {i \in 1..Len(seq) : seq[i].oid = x.oid \/ PyEq(seq[i], x)}
    IN  IF hits = {} THEN 0 ELSE CHOOSE i \in hits : \A j \in hits : i <= j

RemoveAt(seq, i) == SubSeq(seq, 1, i - 1) \o SubSeq(seq, i + 1, Len(seq))

\* the list with the metadata of dict object oid replaced (in-place mutation)
WithMetadata(seq, oid, md) ==
    [i \in 1..Len(seq) |-> IF seq[i].oid = oid THEN [seq[i] EXCEPT !.metadata = md] ELSE seq[i]]

NoCall == [op |-> "none"]

MemoryStart(scorers) ==
    /\ clock = 0
    /\ llm_service \in scorers
    /\ working_memory = << >>
    /\ memories = EmptyDict
    /\ memory_index = {}
    /\ remember_calls = 0
    /\ cons_pc = "idle"
    /\ cons_snapshot = << >>
    /\ cons_i = 1
    /\ cons_added = << >>
    /\ mem_last = NoCall
    /\ task_pc = "idle"
    /\ task_snapshot = << >>
    /\ task_i = 1
    /\ task_added = << >>
    /\ retrieved = << >>
    /\ upd_pc = "idle"
    /\ upd_call = NoCall

MemoryInit == MemoryStart(BOOLEAN)
MemoryIdle == MemoryStart({FALSE})

\* time passes
Tick ==
    /\ clock < MaxClock
    /\ clock' = clock + 1
    /\ UNCHANGED <<llm_service, working_memory, memories, memory_index, remember_calls,
                   cons_pc, cons_snapshot, cons_i, cons_added, mem_last>>
    /\ UNCHANGED <<taskVars, reactorVars, registryVars, contextVars, moreVars>>

\* MCPMemoryManager.remember(content, long_term=..., importance=...)
remember ==
    /\ cons_pc # "running"
    /\ task_pc # "running"
    /\ remember_calls < MaxRemember
    /\ \E content \in MemContents, args \in RememberArgs :
       \* lines 542-543: an unset importance is scored when there is a scorer
       \E importance \in IF args.importance = NoImportance /\ llm_service
                         THEN Importances ELSE {args.importance} :
        LET metadata == IF importance # NoImportance
                        THEN [timestamp |-> clock, importance |-> importance]
                        ELSE [timestamp |-> clock]
            oid == remember_calls + 1
            call == [op |-> "remember", content |-> content, long_term |-> args.long_term,
                     importance |-> importance, oid |-> oid]
        IN  IF GoesLongTerm(args.long_term, importance)
            THEN LET r == SqliteMemory_add(memories, memory_index, content, metadata, clock) IN
                 /\ memories' = r.memories
                 /\ memory_index' = r.memory_index
                 /\ mem_last' = call @@ [raised |-> r.raised, ret |-> r.id]
                 /\ UNCHANGED working_memory
            ELSE LET memory_id == MakeId("wm", clock, content) IN
                 /\ working_memory' = LimitCapacity(Append(working_memory,
                        [oid |-> oid, id |-> memory_id, content |-> content,
                         metadata |-> metadata]))
                 /\ mem_last' = call @@ [raised |-> "", ret |-> memory_id]
                 /\ UNCHANGED <<memories, memory_index>>
    /\ remember_calls' = remember_calls + 1
    /\ cons_pc' = "idle"
    /\ cons_snapshot' = << >>
    /\ cons_i' = 1
    /\ cons_added' = << >>
    /\ task_pc' = "idle"
    /\ task_snapshot' = << >>
    /\ task_i' = 1
    /\ task_added' = << >>
    /\ UNCHANGED <<clock, llm_service>>
    /\ UNCHANGED <<reactorVars, registryVars, contextVars, moreVars>>

\* MCPMemoryManager.consolidate, lines 659-663: from position i the loop runs
\* past the entries it leaves alone, up to the next entry it writes or the end.
SkipTo(snapshot, i) ==
    LET important == {k \in i..Len(snapshot) : IsImportant(snapshot[k])}
    IN  IF important = {} THEN Len(snapshot) + 1
        ELSE CHOOSE k \in important : \A j \in important : k <= j

\* MCPMemoryManager.consolidate, lines 659-664: the call copies the list and
\* runs up to its first await of long_term_memory.add, or to its end.
consolidate_begin ==
    /\ cons_pc # "running"
    /\ cons_snapshot' = working_memory
    /\ cons_i' = SkipTo(working_memory, 1)
    /\ cons_pc' = IF cons_i' > Len(working_memory) THEN "done" ELSE "running"
    /\ cons_added' = << >>
    /\ mem_last' = [op |-> "consolidate"]
    /\ UNCHANGED <<clock, llm_service, working_memory, memories, memory_index, remember_calls>>
    /\ UNCHANGED <<taskVars, reactorVars, registryVars, contextVars, moreVars>>

\* MCPMemoryManager.consolidate, lines 664-668: the awaited add finishes, the
\* entry is removed and the loop runs on to its next await or its end.
consolidate_next ==
    /\ cons_pc = "running"
    /\ LET memory == cons_snapshot[cons_i]
           r == SqliteMemory_add(memories, memory_index, memory.content,
                                 memory.metadata, clock)
           mutated == [memory EXCEPT !.metadata = r.metadata]
           wm == WithMetadata(working_memory, memory.oid, r.metadata)
           at == IndexOf(wm, mutated)
       IN  /\ memories' = r.memories
           /\ memory_index' = r.memory_index
           /\ cons_added' = Append(cons_added, [oid |-> memory.oid, id |-> r.id,
                                                raised |-> r.raised])
           /\ IF r.raised # "" \/ at = 0
              THEN cons_pc' = "raised" /\ working_memory' = wm /\ UNCHANGED cons_i
              ELSE /\ working_memory' = RemoveAt(wm, at)
                   /\ cons_i' = SkipTo(cons_snapshot, cons_i + 1)
                   /\ cons_pc' = IF cons_i' > Len(cons_snapshot) THEN "done" ELSE "running"
    /\ UNCHANGED <<clock, llm_service, remember_calls, cons_snapshot, mem_last>>
    /\ UNCHANGED <<taskVars, reactorVars, registryVars, contextVars, moreVars>>

NextMemory == Tick \/ remember \/ consolidate_begin \/ consolidate_next

\* the ids a caller can hold: every id remember can have returned, and one
\* that was never issued
KnownIds == {MakeId(prefix, now, content) :
                prefix \in {"wm", "mem"}, now \in 0..MaxClock, content \in MemContents}
            \cup {MakeId("mem", 0, "never")}

\* the None that get returns, as a record so that it compares with a memory
NoMemory == [none |-> TRUE]

\* SqliteMemory.get: the row under the id, or None
SqliteMemory_get(mem, memory_id) ==
    IF memory_id \in DOMAIN mem
    THEN [id |-> memory_id] @@ mem[memory_id]
    ELSE NoMemory

\* SqliteMemory.delete: both DELETE statements in one transaction; the result
\* is the row count of the second, the one on memory_index.
SqliteMemory_delete(mem, idx, memory_id) ==
    [memories |-> [k \in DOMAIN mem \ {memory_id} |-> mem[k]],
     memory_index |-> {row \in idx : row.id # memory_id},
     ret |-> \E row \in idx : row.id = memory_id]

\* the first position of working memory holding the id, 0 if none
FirstWithId(wm, memory_id) ==
    LET hits == {i \in 1..Len(wm) : wm[i].id = memory_id}
    IN  IF hits = {} THEN 0 ELSE CHOOSE i \in hits : \A j \in hits : i <= j

\* MCPMemoryManager.get_memory
get_memory(wm, mem, memory_id) ==
    IF FirstWithId(wm, memory_id) # 0
    THEN wm[FirstWithId(wm, memory_id)]
    ELSE SqliteMemory_get(mem, memory_id)

\* MCPMemoryManager.forget(memory_id)
forget ==
    /\ cons_pc # "running"
    /\ task_pc # "running"
    /\ \E memory_id \in KnownIds :
        LET at == FirstWithId(working_memory, memory_id) IN
        IF at # 0
        THEN /\ working_memory' = RemoveAt(working_memory, at)
             /\ mem_last' = [op |-> "forget", id |-> memory_id, ret |-> TRUE, raised |-> ""]
             /\ UNCHANGED <<memories, memory_index>>
        ELSE LET r == SqliteMemory_delete(memories, memory_index, memory_id) IN
             /\ memories' = r.memories
             /\ memory_index' = r.memory_index
             /\ mem_last' = [op |-> "forget", id |-> memory_id, ret |-> r.ret, raised |-> ""]
             /\ UNCHANGED working_memory
    /\ UNCHANGED <<clock, llm_service, remember_calls, cons_pc, cons_snapshot, cons_i,
                   cons_added>>
    /\ UNCHANGED <<taskVars, reactorVars, registryVars, contextVars, moreVars>>

\* SqliteMemory.update, lines 394-425: the write transaction of an update whose
\* SELECT found the row. The UPDATE changes the row that is there now, if any;
\* the index entries of the id are deleted and one is inserted.
SqliteMemory_update(mem, idx, memory_id, new_content, now) ==
    [memories |-> IF memory_id \in DOMAIN mem
                  THEN [mem EXCEPT ![memory_id].content = new_content,
                                   ![memory_id].metadata.updated_at = now,
                                   ![memory_id].updated_at = now]
                  ELSE mem,
     memory_index |-> {row \in idx : row.id # memory_id}
                      \cup {[id |-> memory_id, content |-> new_content, tags |-> ""]}]

\* SqliteMemory.add(content), run in an executor thread as one transaction
store_add ==
    /\ \E content \in MemContents :
        LET r == SqliteMemory_add(memories, memory_index, content, EmptyDict, clock) IN
        /\ memories' = r.memories
        /\ memory_index' = r.memory_index
        /\ mem_last' = [op |-> "add", id |-> r.id, raised |-> r.raised]
    /\ UNCHANGED <<clock, llm_service, working_memory, remember_calls,
                   cons_pc, cons_snapshot, cons_i, cons_added>>
    /\ UNCHANGED <<taskVars, reactorVars, registryVars, contextVars,
                   systemVars, retrieved, schemaVars, storeVars, agentVars, protocolVars>>

\* SqliteMemory.update(memory_id, content), lines 359-378: the SELECT, outside
\* any transaction; update returns False when there is no such row.
update_select ==
    /\ upd_pc = "idle"
    /\ \E memory_id \in KnownIds, content \in MemContents \cup {None} :
        IF memory_id \in DOMAIN memories
        THEN /\ upd_pc' = "selected"
             /\ upd_call' = [id |-> memory_id,
                             new_content |-> IF content # None THEN content
                                             ELSE memories[memory_id].content]
             /\ UNCHANGED mem_last
        ELSE /\ mem_last' = [op |-> "update", id |-> memory_id, ret |-> FALSE, raised |-> ""]
             /\ UNCHANGED <<upd_pc, upd_call>>
    /\ UNCHANGED <<clock, llm_service, working_memory, memories, memory_index,
                   remember_calls, cons_pc, cons_snapshot, cons_i, cons_added>>
    /\ UNCHANGED <<taskVars, reactorVars, registryVars, contextVars,
                   systemVars, retrieved, schemaVars, agentVars, protocolVars>>

\* SqliteMemory.update, lines 394-429: UPDATE, DELETE, INSERT and commit.
update_write ==
    /\ upd_pc = "selected"
    /\ LET r == SqliteMemory_update(memories, memory_index, upd_call.id,
                                    upd_call.new_content, clock) IN
        /\ memories' = r.memories
        /\ memory_index' = r.memory_index
    /\ mem_last' = [op |-> "update", id |-> upd_call.id, ret |-> TRUE, raised |-> ""]
    /\ upd_pc' = "idle"
    /\ upd_call' = NoCall
    /\ UNCHANGED <<clock, llm_service, working_memory, remember_calls,
                   cons_pc, cons_snapshot, cons_i, cons_added>>
    /\ UNCHANGED <<taskVars, reactorVars, registryVars, contextVars,
                   systemVars, retrieved, schemaVars, agentVars, protocolVars>>

\* SqliteMemory.delete(memory_id), run in an executor thread as one transaction
store_delete ==
    /\ \E memory_id \in KnownIds :
        LET r == SqliteMemory_delete(memories, memory_index, memory_id) IN
        /\ memories' = r.memories
        /\ memory_index' = r.memory_index
        /\ mem_last' = [op |-> "delete", id |-> memory_id, ret |-> r.ret, raised |-> ""]
    /\ UNCHANGED <<clock, llm_service, working_memory, remember_calls,
                   cons_pc, cons_snapshot, cons_i, cons_added>>
    /\ UNCHANGED <<taskVars, reactorVars, registryVars, contextVars,
                   systemVars, retrieved, schemaVars, storeVars, agentVars, protocolVars>>

NextStore == Tick \/ store_add \/ update_select \/ update_write \/ store_delete

\* a whole second of time.time() passes between two calls
Sleep ==
    /\ clock + TicksPerSecond <= MaxSeconds * TicksPerSecond
    /\ clock' = clock + TicksPerSecond
    /\ UNCHANGED <<llm_service, working_memory, memories, memory_index, remember_calls,
                   cons_pc, cons_snapshot, cons_i, cons_added, mem_last>>
    /\ UNCHANGED <<taskVars, reactorVars, registryVars, contextVars, moreVars>>

NextEviction == Sleep \/ remember

NextForget == Tick \/ remember \/ forget

\* MCPMemoryManager.forget(memory_id) called with an id that a remember call
\* of the current second returns
forget_issued ==
    /\ forget
    /\ mem_last'.id.time = Seconds(clock)
    /\ mem_last'.id.hash \in MemContents

\* remember, forget and consolidate calls one after the other, within one
\* tick of the clock
NextTiers == remember \/ forget_issued \/ consolidate_begin \/ consolidate_next

\* the queries retrieve is called with: a word of both texts, a word of one,
\* and a fragment of a word
Queries == {"note", "a", "ot"}

\* the words of a text, as the fts5 tokenizer splits it
Words(content) ==
    CASE content = "note a" -> {"note", "a"}
      [] content = "note b" -> {"note", "b"}

\* query.lower() in content_str.lower(), line 588, for the texts and queries above
Contains(content, query) == query \in Words(content) \/ query = "ot"

\* i.content MATCH ?, line 308: a one-word fts5 query matches a whole word
Match(content, query) == query \in Words(content)

\* ORDER BY m.importance DESC, m.updated_at DESC, line 309
OrderedBefore(x, y) ==
    x.importance > y.importance \/ (x.importance = y.importance /\ x.updated_at >= y.updated_at)

\* SqliteMemory.search: the lists the SELECT can return, rows that tie in the
\* ORDER BY coming in either order
SqliteMemory_search(mem, idx, query, limit) ==
    LET hits == {k \in DOMAIN mem : \E row \in idx : row.id = k /\ Match(row.content, query)}
        n == Cardinality(hits)
        orders == {f \in [1..n -> hits] :
                      /\ \A i, j \in 1..n : i # j => f[i] # f[j]
                      /\ \A i, j \in 1..n : i < j => OrderedBefore(mem[f[i]], mem[f[j]])}
    IN  {[i \in 1..(IF limit < n THEN limit ELSE n) |-> [id |-> f[i]] @@ mem[f[i]]] :
            f \in orders}

\* lines 596-606: the list without the entries whose id came earlier
RECURSIVE Dedupe(_, _)
Dedupe(list, seen_ids) ==
    IF list = << >> THEN << >>
    ELSE IF Head(list).id \in seen_ids THEN Dedupe(Tail(list), seen_ids)
    ELSE <<Head(list)>> \o Dedupe(Tail(list), seen_ids \cup {Head(list).id})

\* the key of lines 609-613 compared: importance*10 outweighs timestamp/1e10
\* for every time stamp below 1e10 seconds, so the order is by importance,
\* then by time stamp
KeyAtLeast(x, y) ==
    LET xi == Get(x.metadata, "importance", DefaultRowImportance)
        yi == Get(y.metadata, "importance", DefaultRowImportance)
    IN  xi > yi \/ (xi = yi /\ Get(x.metadata, "timestamp", 0) >= Get(y.metadata, "timestamp", 0))

\* list.sort(key=..., reverse=True): descending, equal keys keep their order
InsertDescending(sorted, x) ==
    LET k == Cardinality({i \in 1..Len(sorted) : KeyAtLeast(sorted[i], x)})
    IN  SubSeq(sorted, 1, k) \o <<x>> \o SubSeq(sorted, k + 1, Len(sorted))
RECURSIVE SortDescending(_)
SortDescending(list) ==
    IF list = << >> THEN << >>
    ELSE InsertDescending(SortDescending(SubSeq(list, 1, Len(list) - 1)), list[Len(list)])

\* MCPMemoryManager.retrieve, lines 584-618, given what search returned
Merged(wm, long_term_results, query, limit) ==
    LET working_memory_results == SelectSeq(wm, LAMBDA m : Contains(m.content, query))
        all_results == Dedupe(working_memory_results \o long_term_results, {})
        sorted == SortDescending(all_results)
    IN  SubSeq(sorted, 1, IF limit < Len(sorted) THEN limit ELSE Len(sorted))

\* MCPMemoryManager.retrieve(query, limit)
retrieve ==
    /\ cons_pc # "running"
    /\ task_pc # "running"
    /\ \E query \in Queries, limit \in 1..MaxLimit :
       \E long_term_results \in SqliteMemory_search(memories, memory_index, query, limit) :
        /\ retrieved' = Merged(working_memory, long_term_results, query, limit)
        /\ mem_last' = [op |-> "retrieve", query |-> query, limit |-> limit, raised |-> ""]
    /\ UNCHANGED <<clock, llm_service, working_memory, memories, memory_index,
                   remember_calls, cons_pc, cons_snapshot, cons_i, cons_added>>
    /\ UNCHANGED <<taskVars, systemVars, schemaVars, reactorVars, registryVars, contextVars, laterVars>>

NextRetrieve == Tick \/ remember \/ consolidate_begin \/ consolidate_next \/ retrieve

\* asyncio.create_task(self.memory_manager.consolidate()): a second call of
\* consolidate, lines 659-664, started whether or not the first has finished.
task_begin ==
    /\ task_pc # "running"
    /\ task_snapshot' = working_memory
    /\ task_i' = SkipTo(working_memory, 1)
    /\ task_pc' = IF task_i' > Len(working_memory) THEN "done" ELSE "running"
    /\ task_added' = << >>
    /\ UNCHANGED <<clock, llm_service, working_memory, memories, memory_index,
                   remember_calls, cons_pc, cons_snapshot, cons_i, cons_added, mem_last>>
    /\ UNCHANGED <<reactorVars, registryVars, contextVars, moreVars>>

\* the task's consolidate, lines 664-668: its awaited add finishes, the entry
\* is removed and the loop runs on to its next await or its end.
task_next ==
    /\ task_pc = "running"
    /\ LET memory == task_snapshot[task_i]
           r == SqliteMemory_add(memories, memory_index, memory.content,
                                 memory.metadata, clock)
           mutated == [memory EXCEPT !.metadata = r.metadata]
           wm == WithMetadata(working_memory, memory.oid, r.metadata)
           at == IndexOf(wm, mutated)
       IN  /\ memories' = r.memories
           /\ memory_index' = r.memory_index
           /\ task_added' = Append(task_added, [oid |-> memory.oid, id |-> r.id,
                                                raised |-> r.raised])
           /\ IF r.raised # "" \/ at = 0
              THEN task_pc' = "raised" /\ working_memory' = wm /\ UNCHANGED task_i
              ELSE /\ working_memory' = RemoveAt(wm, at)
                   /\ task_i' = SkipTo(task_snapshot, task_i + 1)
                   /\ task_pc' = IF task_i' > Len(task_snapshot) THEN "done" ELSE "running"
    /\ UNCHANGED <<clock, llm_service, remember_calls, task_snapshot, cons_pc,
                   cons_snapshot, cons_i, cons_added, mem_last>>
    /\ UNCHANGED <<reactorVars, registryVars, contextVars, moreVars>>

NextTask == Tick \/ remember \/ consolidate_begin \/ consolidate_next
            \/ task_begin \/ task_next

\* Reactor.process, line 64: the condition of the while loop.
LoopConditionOffByOne == ~complete /\ iterations <= max_iterations
LoopCondition == ~complete /\ iterations < max_iterations

NoStep == [step |-> "none"]

ReactorStart(K) ==
    /\ max_iterations \in K
    /\ pc = "idle"
    /\ iterations = 0
    /\ observations = << >>
    /\ complete = FALSE
    /\ final_response = ""
    /\ iteration_history = << >>
    /\ llm_calls = 0
    /\ reason_calls = 0
    /\ tool_calls = 0
    /\ last = NoStep

ReactorInit == ReactorStart(0..MaxIterations)
\* the simple assistant's Reactor, at rest
ReactorIdle == ReactorStart({5})

\* The observation put in front of the log instead of at its end.
RecordObservationFirst(log, thought, observation) ==
    <<[thought |-> thought, observation |-> observation]>> \o log

\* Reactor.process, lines 74-77: the observation is appended to the log.
RecordObservation(log, thought, observation) ==
    Append(log, [thought |-> thought, observation |-> observation])

\* Reactor.process, lines 52-61: a run starts.
Process ==
    /\ pc \in {"idle", "returned", "raised"}
    /\ pc' = "loop"
    /\ iterations' = 0
    /\ observations' = << >>
    /\ complete' = FALSE
    /\ final_response' = ""
    /\ iteration_history' = << >>
    /\ llm_calls' = 0
    /\ reason_calls' = 0
    /\ tool_calls' = 0
    /\ last' = NoStep
    /\ UNCHANGED <<max_iterations, registryVars, contextVars, memoryVars, moreVars>>

\* Reactor.process, lines 64-92: one pass of the while loop.
Iterate ==
    /\ pc = "loop"
    /\ LoopCondition
    /\ \E resp \in LLMResponses, outcome \in ToolOutcomes :
        LET r == _reason(resp) IN
        /\ llm_calls' = llm_calls + 1
        /\ reason_calls' = reason_calls + 1
        /\ IF r.raised \/ r.jtype # "dict"
           THEN \* the exception of generate / json.loads / thought.get leaves process
                /\ pc' = "raised"
                /\ last' = [step |-> "reason", resp |-> resp, invoked |-> FALSE,
                            outcome |-> "none", iteration |-> iterations]
                /\ UNCHANGED <<iterations, observations, complete, final_response,
                               iteration_history, tool_calls>>
           ELSE IF Get(r.thought, "action_type", None) = "tool_use"
           THEN LET e == _execute_tool(r.thought, outcome) IN
                /\ observations' = RecordObservation(observations, r.thought, e.observation)
                /\ iteration_history' = Append(iteration_history,
                        [iteration |-> iterations, thought |-> r.thought,
                         observation |-> e.observation])
                /\ iterations' = iterations + 1
                /\ tool_calls' = tool_calls + (IF e.invoked THEN 1 ELSE 0)
                /\ last' = [step |-> "reason", resp |-> resp, invoked |-> e.invoked,
                            outcome |-> IF e.invoked THEN outcome ELSE "none",
                            iteration |-> iterations]
                /\ UNCHANGED <<pc, complete, final_response>>
           ELSE IF Get(r.thought, "action_type", None) = "final_response"
           THEN /\ complete' = TRUE
                /\ final_response' = Get(r.thought, "response", "")
                /\ iterations' = iterations + 1
                /\ last' = [step |-> "reason", resp |-> resp, invoked |-> FALSE,
                            outcome |-> "none", iteration |-> iterations]
                /\ UNCHANGED <<pc, observations, iteration_history, tool_calls>>
           ELSE /\ iterations' = iterations + 1
                /\ last' = [step |-> "reason", resp |-> resp, invoked |-> FALSE,
                            outcome |-> "none", iteration |-> iterations]
                /\ UNCHANGED <<pc, observations, complete, final_response,
                               iteration_history, tool_calls>>
    /\ UNCHANGED <<max_iterations, registryVars, contextVars, memoryVars, moreVars>>

\* Finish with the timeout path going back into the loop instead of returning.
FinishRetry ==
    /\ pc = "loop"
    /\ ~LoopCondition
    /\ IF complete
       THEN /\ pc' = "returned"
            /\ UNCHANGED <<final_response, complete, llm_calls, last, iterations>>
       ELSE \E resp \in LLMResponses :
            /\ llm_calls' = llm_calls + 1
            /\ last' = [step |-> "timeout", resp |-> resp, invoked |-> FALSE,
                        outcome |-> "none", iteration |-> iterations]
            /\ iterations' = 0
            /\ UNCHANGED <<pc, final_response, complete>>
    /\ UNCHANGED <<max_iterations, observations, iteration_history,
                   reason_calls, tool_calls, registryVars, contextVars, memoryVars, moreVars>>

\* Reactor.process, lines 64 and 94-103: the loop condition fails, the timeout
\* response is generated when the run is not complete, and process returns.
Finish ==
    /\ pc = "loop"
    /\ ~LoopCondition
    /\ IF complete
       THEN /\ pc' = "returned"
            /\ UNCHANGED <<final_response, complete, llm_calls, last>>
       ELSE \E resp \in LLMResponses :
            LET t == _generate_timeout_response(resp) IN
            /\ llm_calls' = llm_calls + 1
            /\ last' = [step |-> "timeout", resp |-> resp, invoked |-> FALSE,
                        outcome |-> "none", iteration |-> iterations]
            /\ IF t.raised
               THEN pc' = "raised" /\ UNCHANGED <<final_response, complete>>
               ELSE pc' = "returned" /\ final_response' = t.text /\ complete' = TRUE
    /\ UNCHANGED <<max_iterations, iterations, observations, iteration_history,
                   reason_calls, tool_calls, registryVars, contextVars, memoryVars, moreVars>>

\* The value process returns (lines 99-103), meaningful when pc = "returned".
ProcessResult ==
    [response |-> final_response, iterations |-> iterations, history |-> iteration_history]

NextReactor == Process \/ Iterate \/ Finish

\* ---------------------------------------------------------------------------
\* MCPSystem: the plan scheduler
\* ---------------------------------------------------------------------------
TaskIds == {"t1", "t2", "t3"}
\* a plan step: its task_id and its dependencies
PlanTasks == [task_id : TaskIds, dependencies : SUBSET TaskIds]
\* the plans create_plan can return: up to three steps, ids not necessarily
\* distinct, dependencies on any id, those of no step included
Plans == UNION {[1..n -> PlanTasks] : n \in 1..Cardinality(TaskIds)}

InList(x, list) == \E k \in 1..Len(list) : list[k] = x

\* _can_execute_task with any() for all().
_can_execute_task_any(task, completed) ==
    task.dependencies = {} \/ \E dep \in task.dependencies : InList(dep, completed)

\* MCPSystem._can_execute_task
_can_execute_task(task, completed) ==
    \A dep \in task.dependencies : InList(dep, completed)

RECURSIVE SeqOfSet(_)
\* the members of a set of positions, ascending
SeqOfSet(S) ==
    IF S = {} THEN << >>
    ELSE LET m == CHOOSE x \in S : \A y \in S : x <= y
         IN  <<m>> \o SeqOfSet(S \ {m})

\* MCPSystem._get_next_tasks: the positions of the steps selected, in plan order
_get_next_tasks(plan, completed, pending) ==
    SeqOfSet({k \in 1..Len(plan) :
                /\ ~InList(plan[k].task_id, completed)
                /\ ~InList(plan[k].task_id, pending)
                /\ _can_execute_task(plan[k], completed)})

\* list.remove(x): the list without the first x
RemoveFirst(list, x) ==
    LET at == CHOOSE k \in 1..Len(list) : list[k] = x /\ \A j \in 1..(k - 1) : list[j] # x
    IN  SubSeq(list, 1, at - 1) \o SubSeq(list, at + 1, Len(list))

SystemStart(K) ==
    /\ sys_max_iterations \in K
    /\ sys_pc = "idle"
    /\ current_plan = << >>
    /\ completed_tasks = << >>
    /\ pending_tasks = << >>
    /\ sys_status = "idle"
    /\ sys_iteration = 0
    /\ next_tasks = << >>
    /\ batch_state = << >>
    /\ started_steps = {}
    /\ sys_result = None

SystemInit == SystemStart(1..MaxSysIterations)
\* MCPSystem(...) with the default max_iterations, at rest
SystemIdle == SystemStart({10})

\* MCPSystem.process, lines 265-278: create_plan returns a plan and the
\* execution state is reset.
SystemProcess ==
    /\ sys_pc = "idle"
    /\ \E plan \in Plans : current_plan' = plan
    /\ completed_tasks' = << >>
    /\ pending_tasks' = << >>
    /\ sys_status' = "in_progress"
    /\ sys_iteration' = 0
    /\ started_steps' = {}
    /\ sys_pc' = "loop"
    /\ UNCHANGED <<sys_max_iterations, next_tasks, batch_state, sys_result>>
    /\ UNCHANGED <<reactorVars, registryVars, contextVars, memoryVars, retrieved, schemaVars, laterVars>>

\* MCPSystem.process, lines 279-293: the loop test, the next batch, and the
\* status when there is none.
NextBatch ==
    /\ sys_pc = "loop"
    /\ IF sys_iteration < sys_max_iterations
       THEN LET batch == _get_next_tasks(current_plan, completed_tasks, pending_tasks) IN
            IF batch = << >>
            THEN /\ sys_status' =
                      IF \A k \in 1..Len(current_plan) :
                             InList(current_plan[k].task_id, completed_tasks)
                      THEN "completed" ELSE "blocked"
                 /\ sys_pc' = "leave"
                 /\ UNCHANGED <<next_tasks, batch_state>>
            ELSE /\ next_tasks' = batch
                 /\ batch_state' = [k \in 1..Len(batch) |-> "new"]
                 /\ sys_pc' = "gather"
                 /\ UNCHANGED sys_status
       ELSE /\ sys_pc' = "leave"
            /\ UNCHANGED <<sys_status, next_tasks, batch_state>>
    /\ UNCHANGED <<sys_max_iterations, current_plan, completed_tasks, pending_tasks,
                   sys_iteration, started_steps, sys_result>>
    /\ UNCHANGED <<reactorVars, registryVars, contextVars, memoryVars, retrieved, schemaVars, laterVars>>

\* MCPSystem.execute_task, lines 200-241: asyncio.gather starts the coroutines
\* in order; each marks its task pending and awaits agent.process.
execute_task ==
    /\ sys_pc = "gather"
    /\ \E k \in 1..Len(next_tasks) :
        /\ batch_state[k] = "new"
        /\ \A j \in 1..(k - 1) : batch_state[j] # "new"
        /\ pending_tasks' = Append(pending_tasks, current_plan[next_tasks[k]].task_id)
        /\ batch_state' = [batch_state EXCEPT ![k] = "running"]
        /\ started_steps' = started_steps \cup {next_tasks[k]}
    /\ UNCHANGED <<sys_max_iterations, sys_pc, current_plan, completed_tasks, sys_status,
                   sys_iteration, next_tasks, sys_result>>
    /\ UNCHANGED <<reactorVars, registryVars, contextVars, memoryVars, retrieved, schemaVars, laterVars>>

\* MCPSystem.execute_task, lines 244-251: agent.process returned; with the
\* last task of the batch asyncio.gather returns and line 299 counts the pass.
task_done ==
    /\ sys_pc = "gather"
    /\ \E k \in 1..Len(next_tasks) :
        /\ batch_state[k] = "running"
        /\ LET task_id == current_plan[next_tasks[k]].task_id
               after == [batch_state EXCEPT ![k] = "done"]
           IN  /\ pending_tasks' = RemoveFirst(pending_tasks, task_id)
               /\ completed_tasks' = Append(completed_tasks, task_id)
               /\ IF \A j \in 1..Len(after) : after[j] = "done"
                  THEN /\ sys_iteration' = sys_iteration + 1
                       /\ sys_pc' = "loop"
                       /\ next_tasks' = << >>
                       /\ batch_state' = << >>
                  ELSE /\ batch_state' = after
                       /\ UNCHANGED <<sys_iteration, sys_pc, next_tasks>>
    /\ UNCHANGED <<sys_max_iterations, current_plan, sys_status, started_steps, sys_result>>
    /\ UNCHANGED <<reactorVars, registryVars, contextVars, memoryVars, retrieved, schemaVars, laterVars>>

\* MCPSystem.execute_task, line 244: agent.process raises (MCPAgent.process has
\* no handler); asyncio.gather passes the exception on and process ends on it.
task_raises ==
    /\ sys_pc = "gather"
    /\ \E k \in 1..Len(next_tasks) : batch_state[k] = "running"
    /\ sys_pc' = "raised"
    /\ UNCHANGED <<sys_max_iterations, current_plan, completed_tasks, pending_tasks,
                   sys_status, sys_iteration, next_tasks, batch_state, started_steps,
                   sys_result>>
    /\ UNCHANGED <<reactorVars, registryVars, contextVars, memoryVars, retrieved, schemaVars, laterVars>>

\* MCPSystem.process, lines 301-327: the status returned.
SystemReturn ==
    /\ sys_pc = "leave"
    /\ sys_result' = IF sys_status = "completed" THEN "success" ELSE sys_status
    /\ sys_pc' = "returned"
    /\ UNCHANGED <<sys_max_iterations, current_plan, completed_tasks, pending_tasks,
                   sys_status, sys_iteration, next_tasks, batch_state, started_steps>>
    /\ UNCHANGED <<reactorVars, registryVars, contextVars, memoryVars, retrieved, schemaVars, laterVars>>

NextSystem == SystemProcess \/ NextBatch \/ execute_task \/ task_done \/ task_raises
              \/ SystemReturn

\* ---------------------------------------------------------------------------
\* MCPTool: the exported schema
\* ---------------------------------------------------------------------------
\* the parameter names of the tool, in the order of its parameters dict
ParamOrder == <<"a", "b", "c">>
ParamNames == {ParamOrder[i] : i \in 1..Len(ParamOrder)}
\* a parameter's info: as _infer_parameters builds it (required: True or no
\* such key), or as a caller passes it (required: False as well)
ParamInfos == {[type |-> "string"],
               [type |-> "string", required |-> TRUE],
               [type |-> "string", required |-> FALSE]}

\* del info["required"]
Without(info, key) == [k \in DOMAIN info \ {key} |-> info[k]]

\* MCPTool.get_schema: the schema returned and the parameters afterwards
get_schema(params) ==
    LET required_params == SelectSeq(ParamOrder,
                                     LAMBDA name : Get(params[name], "required", FALSE))
        after == [name \in ParamNames |->
                    IF Get(params[name], "required", FALSE)
                    THEN Without(params[name], "required")
                    ELSE params[name]]
    IN  [parameters |-> after,
         schema |-> [properties |-> after, required |-> required_params]]

SchemaStart(P) ==
    /\ parameters \in P
    /\ schemas = << >>

SchemaInit == SchemaStart([ParamNames -> ParamInfos])
\* a tool of one optional parameter, no schema exported yet
SchemaIdle == SchemaStart({[name \in ParamNames |-> [type |-> "string"]]})

\* tool.get_schema(), as get_all_schemas calls it for every generate_response
export_schema ==
    /\ Len(schemas) < MaxSchemaCalls
    /\ LET r == get_schema(parameters) IN
        /\ parameters' = r.parameters
        /\ schemas' = Append(schemas, r.schema)
    /\ UNCHANGED <<reactorVars, registryVars, contextVars, memoryVars, systemVars, retrieved, laterVars>>

NextSchema == export_schema

\* ---------------------------------------------------------------------------
\* MCPSystem: the agents of one batch
\* ---------------------------------------------------------------------------
\* three of the agents _create_base_agents makes for the default roles
AgentNames == {"coordinator", "coder", "general"}
\* the agent_role a plan step can carry: two known roles and one that is none
BatchRoles == {"coder", "general", "designer"}

\* MCPSystem.execute_task, lines 214-217: the agent of a role, general if none
AgentFor(role) == IF role \in AgentNames THEN role ELSE "general"

\* MCPAgent.__init__: set_system_prompt puts the system message first
AgentsIdle ==
    /\ agent_batch = << >>
    /\ agent_state = << >>
    /\ agent_sent = << >>
    /\ conversation_history = [a \in AgentNames |-> <<[role |-> "system", task |-> 0]>>]

\* MCPProtocol.__init__, lines 180-183
ProtocolIdle ==
    /\ gen_pc = "idle"
    /\ gen_depth = 0
    /\ gen_calls = 0
    /\ gen_history = << >>
    /\ gen_result = None

LaterIdle == AgentsIdle /\ ProtocolIdle

\* MCPSystem.process, lines 295-297: the coroutines of the batch are handed
\* to asyncio.gather.
gather_batch ==
    /\ agent_batch = << >>
    /\ \E n \in 1..MaxBatch : \E batch \in [1..n -> BatchRoles] :
        /\ agent_batch' = batch
        /\ agent_state' = [k \in 1..n |-> "new"]
        /\ agent_sent' = [k \in 1..n |-> << >>]
    /\ UNCHANGED conversation_history
    /\ UNCHANGED <<reactorVars, registryVars, contextVars, memoryVars,
                   systemVars, retrieved, schemaVars, storeVars, protocolVars>>

\* execute_task up to its await: agent.process -> think_async ->
\* MCPProtocol.generate_response, lines 231-244: the user message is appended
\* to the agent's history, the history is formatted for the model, and the
\* coroutine is suspended in llm.generate. asyncio.gather starts the
\* coroutines in order.
think_begin ==
    /\ \E k \in 1..Len(agent_batch) :
        /\ agent_state[k] = "new"
        /\ \A j \in 1..(k - 1) : agent_state[j] # "new"
        /\ LET a == AgentFor(agent_batch[k])
               h == Append(conversation_history[a], [role |-> "user", task |-> k])
           IN  /\ conversation_history' = [conversation_history EXCEPT ![a] = h]
               /\ agent_sent' = [agent_sent EXCEPT ![k] = h]
               /\ agent_state' = [agent_state EXCEPT ![k] = "suspended"]
    /\ UNCHANGED agent_batch
    /\ UNCHANGED <<reactorVars, registryVars, contextVars, memoryVars,
                   systemVars, retrieved, schemaVars, storeVars, protocolVars>>

\* generate_response, lines 244-300: llm.generate returns and the assistant
\* message is appended (lines 281-289), or it raises and the handler returns
\* an error response without appending.
think_end ==
    /\ \E k \in 1..Len(agent_batch), answered \in BOOLEAN :
        /\ agent_state[k] = "suspended"
        /\ LET a == AgentFor(agent_batch[k]) IN
           conversation_history' =
               IF answered
               THEN [conversation_history EXCEPT
                        ![a] = Append(@, [role |-> "assistant", task |-> k])]
               ELSE conversation_history
        /\ agent_state' = [agent_state EXCEPT ![k] = "done"]
    /\ UNCHANGED <<agent_batch, agent_sent>>
    /\ UNCHANGED <<reactorVars, registryVars, contextVars, memoryVars,
                   systemVars, retrieved, schemaVars, storeVars, protocolVars>>

NextAgents == gather_batch \/ think_begin \/ think_end

InitReactor == ReactorInit /\ RegistryInit /\ ContextIdle /\ MemoryIdle /\ SystemIdle /\ SchemaIdle /\ LaterIdle
SpecReactor == InitReactor /\ [][NextReactor]_vars

InitRegistry == ReactorIdle /\ RegistryInit /\ ContextIdle /\ MemoryIdle /\ SystemIdle /\ SchemaIdle /\ LaterIdle
SpecRegistry == InitRegistry /\ [][NextRegistry]_vars

InitContext == ReactorIdle /\ RegistryInit /\ ContextInit /\ MemoryIdle /\ SystemIdle /\ SchemaIdle /\ LaterIdle
SpecContext == InitContext /\ [][NextContext]_vars

InitMemory == ReactorIdle /\ RegistryInit /\ ContextIdle /\ MemoryInit /\ SystemIdle /\ SchemaIdle /\ LaterIdle
SpecMemory == InitMemory /\ [][NextMemory]_vars

\* the memory manager with remember calls seconds apart
InitEviction == ReactorIdle /\ RegistryInit /\ ContextIdle /\ MemoryIdle /\ SystemIdle /\ SchemaIdle /\ LaterIdle
SpecEviction == InitEviction /\ [][NextEviction]_vars

\* the durable store with concurrent add, update and delete calls
InitStore == ReactorIdle /\ RegistryInit /\ ContextIdle /\ MemoryIdle /\ SystemIdle /\ SchemaIdle /\ LaterIdle
SpecStore == InitStore /\ [][NextStore]_vars

\* the memory manager with remember, forget and consolidate
InitTiers == ReactorIdle /\ RegistryInit /\ ContextIdle /\ MemoryIdle /\ SystemIdle /\ SchemaIdle /\ LaterIdle
SpecTiers == InitTiers /\ [][NextTiers]_vars

\* the memory manager with remember and forget
InitForget == ReactorIdle /\ RegistryInit /\ ContextIdle /\ MemoryIdle /\ SystemIdle /\ SchemaIdle /\ LaterIdle
SpecForget == InitForget /\ [][NextForget]_vars

\* the memory manager with remember, consolidate and retrieve
InitRetrieve == ReactorIdle /\ RegistryInit /\ ContextIdle /\ MemoryInit /\ SystemIdle /\ SchemaIdle /\ LaterIdle
SpecRetrieve == InitRetrieve /\ [][NextRetrieve]_vars

\* one tool and its schema exports
InitSchema == ReactorIdle /\ RegistryInit /\ ContextIdle /\ MemoryIdle /\ SystemIdle /\ SchemaInit /\ LaterIdle
SpecSchema == InitSchema /\ [][NextSchema]_vars

\* ---------------------------------------------------------------------------
\* MCPProtocol.generate_response
\* ---------------------------------------------------------------------------
\* What a tool call of the answer leads to: a tool message with the result, or
\* one flagged as error (no name, unknown tool, bad arguments, failing tool).
CallOutcomes == {"ok", "error"}

\* What llm.generate can do: raise, answer neither content nor tool_calls,
\* answer content, or answer a non-empty list of tool calls.
ProtocolResponses ==
    {[t |-> "raise"], [t |-> "invalid"], [t |-> "content"]}
    \cup {[t |-> "tool_calls", calls |-> c] :
            c \in UNION {[1..n -> CallOutcomes] : n \in 1..MaxToolCalls}}

\* _process_tool_calls_async: one tool message per call, in order
ToolMessages(calls) ==
    [i \in 1..Len(calls) |-> [role |-> "tool", error |-> calls[i] = "error"]]

\* The handler of lines 290-302 letting the exception through.
OnExceptionPropagate == "raised"

\* generate_response, lines 290-302: except Exception returns an error response
OnException == "returned"

\* MCPProtocol.generate_response(user_input), lines 229-244: the call made for
\* a user input, up to its await of llm.generate.
generate_response ==
    /\ gen_pc = "idle"
    /\ gen_history' = Append(gen_history, [role |-> "user", error |-> FALSE])
    /\ gen_depth' = 1
    /\ gen_calls' = 0
    /\ gen_pc' = "awaiting"
    /\ UNCHANGED gen_result
    /\ UNCHANGED <<reactorVars, registryVars, contextVars, memoryVars,
                   systemVars, retrieved, schemaVars, storeVars, agentVars>>

\* generate_response, lines 244-302: llm.generate returns or raises. Tool
\* calls are processed and generate_response calls itself (line 266), which
\* the interpreter refuses with RecursionError when the stack is full; every
\* exception is caught by the handler of the call it occurs in, and each
\* enclosing call returns what the nested one returned.
llm_generate_done ==
    /\ gen_pc = "awaiting"
    /\ gen_calls' = gen_calls + 1
    /\ \E resp \in ProtocolResponses :
        CASE resp.t = "raise" ->
                /\ gen_pc' = OnException
                /\ gen_result' = "error"
                /\ gen_depth' = 0
                /\ UNCHANGED gen_history
          [] resp.t = "invalid" ->
                /\ gen_pc' = "returned"
                /\ gen_result' = "invalid"
                /\ gen_depth' = 0
                /\ UNCHANGED gen_history
          [] resp.t = "content" ->
                /\ gen_history' = Append(gen_history, [role |-> "assistant", error |-> FALSE])
                /\ gen_pc' = "returned"
                /\ gen_result' = "answer"
                /\ gen_depth' = 0
          [] resp.t = "tool_calls" ->
                IF gen_depth < RecursionLimit
                THEN /\ gen_history' = Append(gen_history \o ToolMessages(resp.calls),
                                              [role |-> "user", error |-> FALSE])
                     /\ gen_depth' = gen_depth + 1
                     /\ UNCHANGED <<gen_pc, gen_result>>
                ELSE /\ gen_history' = gen_history \o ToolMessages(resp.calls)
                     /\ gen_pc' = OnException
                     /\ gen_result' = "error"
                     /\ gen_depth' = 0
    /\ UNCHANGED <<reactorVars, registryVars, contextVars, memoryVars,
                   systemVars, retrieved, schemaVars, storeVars, agentVars>>

NextProtocol == generate_response \/ llm_generate_done

\* the agents of an MCPSystem running the tasks of one batch
InitAgents == ReactorIdle /\ RegistryInit /\ ContextIdle /\ MemoryIdle /\ SystemIdle /\ SchemaIdle /\ LaterIdle
SpecAgents == InitAgents /\ [][NextAgents]_vars

\* one generate_response call; every llm.generate call it awaits returns or raises
InitProtocol == ReactorIdle /\ RegistryInit /\ ContextIdle /\ MemoryIdle /\ SystemIdle /\ SchemaIdle /\ LaterIdle
SpecProtocol == InitProtocol /\ [][NextProtocol]_vars /\ WF_vars(llm_generate_done)

\* the plan scheduler
InitSystem == ReactorIdle /\ RegistryInit /\ ContextIdle /\ MemoryIdle /\ SystemInit /\ SchemaIdle /\ LaterIdle
SpecSystem == InitSystem /\ [][NextSystem]_vars

\* the memory manager with consolidate also launched as a background task
InitTask == ReactorIdle /\ RegistryInit /\ ContextIdle /\ MemoryIdle /\ SystemIdle /\ SchemaIdle /\ LaterIdle
SpecTask == InitTask /\ [][NextTask]_vars

\* ---------------------------------------------------------------------------
\* Reactor: properties
\* ---------------------------------------------------------------------------
\* The thought of the most recent reasoning step (when _reason returned one).
LastReason == _reason(last.resp)
LastIsDecision(kind) ==
    /\ last.step = "reason"
    /\ ~LastReason.raised
    /\ LastReason.jtype = "dict"
    /\ Get(LastReason.thought, "action_type", None) = kind
LastObservation == observations[Len(observations)].observation
LastHistory == iteration_history[Len(iteration_history)]

\* C1: a run performs at most max_iterations reasoning iterations, whatever
\* the model answers, and the iteration count it returns never exceeds
\* max_iterations.
C1_BoundedIterations ==
    /\ iterations <= max_iterations
    /\ reason_calls <= max_iterations
    /\ pc = "returned" => ProcessResult.iterations <= max_iterations
    /\ (pc = "loop" /\ iterations >= max_iterations) => ~ENABLED Iterate

\* C1 witness: a run fed tool_use on every call has returned after exactly
\* max_iterations > 0 iterations.
C1_Witness ==
    /\ pc = "returned"
    /\ max_iterations > 0
    /\ ProcessResult.iterations = max_iterations
    /\ Len(observations) = max_iterations
    /\ last.step = "timeout"

\* C2 (as claimed): when the model invocation raises in a reasoning
\* iteration, process does not propagate the exception.
C2_ModelFailureContained ==
    (last.step = "reason" /\ last.resp.t = "raise") => pc # "raised"

\* C3: when a registered tool raises in a tool_use iteration the exception
\* stays inside the loop: an observation with an error key and no result
\* key is appended for that iteration, and the loop goes on to the next
\* reasoning iteration while the budget allows.
C3_ToolErrorContained ==
    (last.step = "reason" /\ last.invoked /\ last.outcome = "raise") =>
        /\ pc = "loop"
        /\ ~complete
        /\ iterations = last.iteration + 1
        /\ observations # << >>
        /\ "error" \in DOMAIN LastObservation
        /\ "result" \notin DOMAIN LastObservation
        /\ LastHistory.iteration = last.iteration
        /\ LastHistory.observation = LastObservation
        /\ iterations < max_iterations => ENABLED Iterate

\* C3 witness: a tool has raised and the loop still has budget left.
C3_Witness ==
    /\ last.step = "reason" /\ last.invoked /\ last.outcome = "raise"
    /\ pc = "loop"
    /\ iterations < max_iterations
    /\ "error" \in DOMAIN LastObservation

\* The most recent reasoning step got content that json.loads rejects.
LastContentNotJson ==
    /\ last.step = "reason"
    /\ last.resp.t # "raise"
    /\ json_loads(ExtractContent(last.resp)).exc = "JSONDecodeError"

\* C4: content that is not parseable as JSON makes the iteration a
\* final_response whose response is the raw content: the run completes with
\* that text as its response, no tool is executed in the iteration and
\* nothing is raised.
C4_FailOpenParsing ==
    LastContentNotJson =>
        /\ pc \in {"loop", "returned"}
        /\ complete
        /\ final_response = ExtractContent(last.resp)
        /\ ~last.invoked
        /\ Len(observations) = Len(iteration_history)
        /\ \A i \in 1..Len(iteration_history) :
                iteration_history[i].iteration < last.iteration
        /\ pc = "loop" => ~ENABLED Iterate /\ ENABLED Finish
        /\ pc = "returned" => ProcessResult.response = ExtractContent(last.resp)

\* C4 witness: process has returned the plain text the model answered.
C4_Witness ==
    /\ LastContentNotJson
    /\ pc = "returned"
    /\ ProcessResult.response = C_TEXT

\* The most recent reasoning step decided tool_use for an unregistered tool.
LastToolUnknown ==
    /\ LastIsDecision("tool_use")
    /\ ToolNameOf(LastReason.thought) \notin DOMAIN tools

\* C5: a tool_use decision naming an unregistered tool neither crashes nor
\* ends the run: no callable is invoked, an observation with error and
\* available_tools is appended, and the loop continues.
C5_UnknownToolObserved ==
    LastToolUnknown =>
        /\ pc = "loop"
        /\ ~complete
        /\ ~last.invoked
        /\ iterations = last.iteration + 1
        /\ observations # << >>
        /\ "error" \in DOMAIN LastObservation
        /\ "available_tools" \in DOMAIN LastObservation
        /\ LastObservation.available_tools = DOMAIN tools
        /\ LastHistory.iteration = last.iteration
        /\ LastHistory.observation = LastObservation
        /\ iterations < max_iterations => ENABLED Iterate

\* C5 witness: an unknown tool was named and the loop still has budget.
C5_Witness ==
    /\ LastToolUnknown
    /\ pc = "loop"
    /\ iterations < max_iterations
    /\ "available_tools" \in DOMAIN LastObservation

\* C6: a run that exhausts max_iterations without a final_response makes
\* exactly one more model invocation, for the timeout response, and then
\* ends without another reasoning iteration or tool execution; a run never
\* makes more than max_iterations + 1 model invocations.
C6_SingleTimeoutCall ==
    /\ llm_calls <= max_iterations + 1
    /\ last.step = "timeout" =>
            /\ pc \in {"returned", "raised"}
            /\ reason_calls = max_iterations
            /\ iterations = max_iterations
            /\ llm_calls = max_iterations + 1
            /\ ~ENABLED Iterate
            /\ ~ENABLED Finish
    /\ pc = "returned" =>
            (last.step = "timeout") # (LastIsDecision("final_response"))
    /\ (pc = "returned" /\ last.step # "timeout") => llm_calls = reason_calls

\* C6 witness: a run that timed out after max_iterations > 0 tool-less
\* iterations has returned.
C6_Witness ==
    /\ pc = "returned"
    /\ last.step = "timeout"
    /\ max_iterations > 0
    /\ llm_calls = max_iterations + 1

\* ---------------------------------------------------------------------------
\* Tool registries: properties
\* ---------------------------------------------------------------------------
\* C7: registering a name that is already present fails and leaves the
\* registry unchanged, registering a new name succeeds, and every name stays
\* bound to the first tool registered under it.
C7_FirstRegistrationWins ==
    /\ toolkit_tools = toolkit_first
    /\ registry_tools = registry_first
    /\ \A n \in DOMAIN toolkit_tools : toolkit_tools[n].name = n
    /\ \A n \in DOMAIN registry_tools : registry_tools[n].name = n
    /\ reg_last.op # "none" =>
        /\ reg_last.present => reg_last.raised # ""
        /\ (reg_last.raised = "ValueError") => reg_last.present
        /\ (~reg_last.present /\ reg_last.raised # "TypeError") => reg_last.raised = ""
        /\ reg_last.op = "register_tool" =>
            /\ reg_last.raised \in {"", "ValueError"}
            /\ reg_last.tool.name \in DOMAIN toolkit_tools
            /\ reg_last.raised = "" => toolkit_tools[reg_last.tool.name] = reg_last.tool
        /\ (reg_last.op = "register" /\ reg_last.raised = "") =>
            /\ reg_last.tool.name \in DOMAIN registry_tools
            /\ registry_tools[reg_last.tool.name] = reg_last.tool

\* C7 witness: a second registration under a bound name, with another
\* callable, was refused and the first tool is still bound.
C7_Witness ==
    /\ reg_last.op = "register_tool"
    /\ reg_last.raised = "ValueError"
    /\ toolkit_tools[reg_last.tool.name] # reg_last.tool
    /\ Cardinality(DOMAIN toolkit_tools) >= 2

\* The most recent reasoning step got content that is JSON but not a
\* decision: not an object, or an object whose action_type is neither
\* tool_use nor final_response.
LastNotADecision ==
    /\ last.step = "reason"
    /\ last.resp.t # "raise"
    /\ LET parsed == json_loads(ExtractContent(last.resp))
       IN  /\ parsed.exc = ""
           /\ \/ parsed.jtype # "dict"
              \/ Get(parsed.value, "action_type", None) \notin {"tool_use", "final_response"}

\* C21 (as claimed): a model output that is JSON but not a decision is
\* handled fail-open: nothing is raised, the run completes with the raw text
\* as its response, and no further reasoning iteration follows.
C21_MalformedDecisionFailOpen ==
    LastNotADecision =>
        /\ pc \in {"loop", "returned"}
        /\ complete
        /\ final_response = ExtractContent(last.resp)
        /\ pc = "loop" => ~ENABLED Iterate

\* C23: within one run the iterations are sequential. When the model is
\* invoked for a reasoning iteration the observation log matches the history
\* entry by entry, the entries are in iteration order and all belong to
\* earlier iterations, and the observation of the previous iteration, if it
\* used a tool, is already the last entry. The iteration then appends exactly
\* one entry when it decides tool_use and none otherwise, and no other step
\* of the run touches the log: entries are never removed or reordered.
C23_SequentialIterations ==
    [][/\ reason_calls' = reason_calls + 1 =>
            LET r == _reason(last'.resp) IN
            /\ Len(observations) = Len(iteration_history)
            /\ \A i \in 1..Len(observations) :
                    /\ observations[i].thought = iteration_history[i].thought
                    /\ observations[i].observation = iteration_history[i].observation
                    /\ iteration_history[i].iteration < iterations
                    /\ \A j \in 1..(i - 1) :
                            iteration_history[j].iteration < iteration_history[i].iteration
            /\ LastIsDecision("tool_use") =>
                    /\ observations # << >>
                    /\ LastHistory.iteration = iterations - 1
                    /\ observations[Len(observations)].thought = LastReason.thought
            /\ IF ~r.raised /\ r.jtype = "dict"
                  /\ Get(r.thought, "action_type", None) = "tool_use"
               THEN /\ Len(observations') = Len(observations) + 1
                    /\ SubSeq(observations', 1, Len(observations)) = observations
                    /\ observations'[Len(observations')].thought = r.thought
                    /\ SubSeq(iteration_history', 1, Len(iteration_history)) = iteration_history
                    /\ iteration_history'[Len(iteration_history')].iteration = iterations
               ELSE UNCHANGED <<observations, iteration_history>>
       /\ (pc = "loop" /\ reason_calls' = reason_calls) =>
            UNCHANGED <<observations, iteration_history>>
    ]_vars

\* C23 witness: the third reasoning iteration has appended the second entry
\* of the log, the iteration between the two tool uses having appended none.
C23_Witness ==
    /\ pc = "loop"
    /\ reason_calls = 3
    /\ Len(observations) = 2
    /\ iteration_history[1].iteration = 0
    /\ iteration_history[2].iteration = 2
    /\ observations[1].thought # observations[2].thought

\* ---------------------------------------------------------------------------
\* Context: properties
\* ---------------------------------------------------------------------------
\* the last n elements of seq (all of it when it has fewer)
LastN(seq, n) == SubSeq(seq, (IF Len(seq) > n THEN Len(seq) - n ELSE 0) + 1, Len(seq))

\* C8 (as claimed): for any max_history = N the history holds at most N
\* messages, and after more than N additions exactly the N most recent ones
\* in their order.
C8_BoundedHistory ==
    /\ Len(history) <= max_history
    /\ Len(added) > max_history => history = LastN(added, max_history)

\* the number of system-role messages in h
SystemCount(h) == Cardinality({i \in 1..Len(h) : h[i].role = "system"})
NonSystemCount(h) == Len(h) - SystemCount(h)

\* C19 (as claimed): an add_message call that overflows max_history evicts
\* the oldest non-system message; no system-role message leaves the history
\* while a non-system message remains in it.
C19_SystemMessagesKept ==
    [][Len(added') = Len(added) + 1 /\ max_history >= 1
           /\ NonSystemCount(history') > 0
         => SystemCount(history') >= SystemCount(Append(history, added'[Len(added')]))]_vars

\* ---------------------------------------------------------------------------
\* Memory manager: routing and consolidation
\* ---------------------------------------------------------------------------
\* the working-memory entries that are the dict object oid
HeldAs(wm, oid) == {i \in 1..Len(wm) : wm[i].oid = oid}
ItemsOf(wm) == {wm[i] : i \in 1..Len(wm)}

\* C9: a remember call with long_term set or importance above 0.7 leaves
\* working memory as it was and ends with a durable row holding its content
\* under the id of the call, a row the call itself wrote whenever it returned;
\* every other call returns, leaves the durable rows and their index as they
\* were, and appends its item to working memory (the capacity limit may then
\* drop one entry, the new one included).
C9_RememberRouting ==
    [][remember_calls' = remember_calls + 1 =>
        LET c == mem_last'
            durable == c.long_term \/ (c.importance # NoImportance /\ c.importance > 7)
            fresh == {m \in ItemsOf(working_memory') : m.oid = c.oid}
        IN  IF durable
            THEN /\ working_memory' = working_memory
                 /\ c.ret \in DOMAIN memories'
                 /\ memories'[c.ret].content = c.content
                 /\ c.raised = "" =>
                        /\ c.ret \notin DOMAIN memories
                        /\ DOMAIN memories' = DOMAIN memories \cup {c.ret}
                        /\ \A k \in DOMAIN memories : memories'[k] = memories[k]
                 /\ c.raised # "" => memories' = memories /\ memory_index' = memory_index
            ELSE /\ c.raised = ""
                 /\ memories' = memories
                 /\ memory_index' = memory_index
                 /\ \A m \in fresh : m.content = c.content /\ m.id = c.ret
                 /\ IF Len(working_memory) < working_memory_capacity
                    THEN /\ Len(working_memory') = Len(working_memory) + 1
                         /\ SubSeq(working_memory', 1, Len(working_memory)) = working_memory
                         /\ working_memory'[Len(working_memory')].oid = c.oid
                    ELSE /\ Len(working_memory') = Len(working_memory)
                         /\ ItemsOf(working_memory') \subseteq ItemsOf(working_memory) \cup fresh
    ]_vars

\* a call with importance 0.8 and no long_term flag has written its durable row
C9_Witness ==
    /\ mem_last.op = "remember"
    /\ ~mem_last.long_term
    /\ mem_last.importance = 8
    /\ mem_last.raised = ""
    /\ mem_last.ret \in DOMAIN memories
    /\ memories[mem_last.ret].content = mem_last.content
    /\ HeldAs(working_memory, mem_last.oid) = {}

\* the durable writes a finished consolidate made for the dict object oid
WrittenFor(oid) == {k \in 1..Len(cons_added) : cons_added[k].oid = oid}

\* C10: when consolidate has run to its end, every entry that was in working
\* memory with importance above 0.5 has one durable row with its content and
\* importance and is no longer in working memory, and every other entry
\* (importance 0.5 or less, or none) is still in working memory and no durable
\* write was made for it.
C10_ConsolidateThreshold ==
    cons_pc = "done" =>
        \A i \in 1..Len(cons_snapshot) :
            LET m == cons_snapshot[i] IN
            IF "importance" \in DOMAIN m.metadata /\ m.metadata.importance > 5
            THEN /\ HeldAs(working_memory, m.oid) = {}
                 /\ Cardinality(WrittenFor(m.oid)) = 1
                 /\ \A k \in WrittenFor(m.oid) :
                        /\ cons_added[k].raised = ""
                        /\ cons_added[k].id \in DOMAIN memories
                        /\ memories[cons_added[k].id].content = m.content
                        /\ memories[cons_added[k].id].importance = m.metadata.importance
            ELSE /\ Cardinality(HeldAs(working_memory, m.oid)) = 1
                 /\ WrittenFor(m.oid) = {}

\* a finished consolidate that moved an entry of importance 0.7 and left one
\* of importance exactly 0.5
C10_Witness ==
    /\ cons_pc = "done"
    /\ \E i, j \in 1..Len(cons_snapshot) :
        /\ Get(cons_snapshot[i].metadata, "importance", NoImportance) = 7
        /\ WrittenFor(cons_snapshot[i].oid) # {}
        /\ HeldAs(working_memory, cons_snapshot[i].oid) = {}
        /\ Get(cons_snapshot[j].metadata, "importance", NoImportance) = 5
        /\ HeldAs(working_memory, cons_snapshot[j].oid) # {}

\* the entries a consolidate call has written to durable storage
Moved(log) == {log[k].oid : k \in {j \in 1..Len(log) : log[j].raised = ""}}
\* the entry a consolidate call that raised was working on
FailedOn(position, log) == IF position = "raised" THEN {log[Len(log)].oid} ELSE {}

\* C11: with a second consolidate started while the first is suspended at its
\* durable write, no working-memory entry is written to durable storage by
\* both calls, and neither call raises on an entry the other has moved.
C11_ConsolidateRepeatable ==
    [][/\ Moved(cons_added') \cap Moved(task_added') = {}
       /\ (cons_pc = "running" /\ cons_pc' = "raised") =>
              FailedOn(cons_pc', cons_added') \cap Moved(task_added) = {}
       /\ (task_pc = "running" /\ task_pc' = "raised") =>
              FailedOn(task_pc', task_added') \cap Moved(cons_added) = {}
    ]_vars

\* importance*10 + timestamp of a working-memory entry, in ticks (an entry
\* without importance counts 0, as at line 564)
EvictionKey(m) ==
    (IF "importance" \in DOMAIN m.metadata THEN m.metadata.importance ELSE 0) * TicksPerSecond
    + m.metadata.timestamp
Oids(items) == {m.oid : m \in items}

\* C12: a remember call that appends to a full working memory removes exactly
\* one entry, one whose importance*10 + timestamp is the least among the old
\* entries and the new one, and leaves the others as they were.
C12_EvictsLowestKey ==
    [][(/\ remember_calls' = remember_calls + 1
        /\ ~mem_last'.long_term
        /\ mem_last'.importance <= 7
        /\ Len(working_memory) = working_memory_capacity) =>
        LET c == mem_last'
            new == [oid |-> c.oid, id |-> c.ret, content |-> c.content,
                    metadata |-> IF c.importance = NoImportance
                                 THEN [timestamp |-> clock]
                                 ELSE [timestamp |-> clock, importance |-> c.importance]]
            all == ItemsOf(working_memory) \cup {new}
            kept == ItemsOf(working_memory')
            gone == {m \in all : m.oid \notin Oids(kept)}
        IN  /\ Len(working_memory') = working_memory_capacity
            /\ Cardinality(Oids(kept)) = working_memory_capacity
            /\ kept \subseteq all
            /\ Cardinality(gone) = 1
            /\ \A x \in gone : \A y \in all : EvictionKey(x) <= EvictionKey(y)
    ]_vars

\* three calls went to a working memory of capacity two; the entry dropped is
\* neither the oldest nor the newest
C12_Witness ==
    /\ mem_last.op = "remember"
    /\ remember_calls = working_memory_capacity + 1
    /\ mem_last.oid = remember_calls
    /\ memories = EmptyDict
    /\ Len(working_memory) = working_memory_capacity
    /\ HeldAs(working_memory, 1) # {}
    /\ HeldAs(working_memory, mem_last.oid) # {}

\* ---------------------------------------------------------------------------
\* MCPSystem: dependency gating and blocked plans
\* ---------------------------------------------------------------------------
Completed == {completed_tasks[i] : i \in 1..Len(completed_tasks)}
Pending == {pending_tasks[i] : i \in 1..Len(pending_tasks)}
\* the steps that may run now: every dependency completed, the step itself
\* neither completed nor pending
Ready == {k \in 1..Len(current_plan) :
            /\ current_plan[k].dependencies \subseteq Completed
            /\ current_plan[k].task_id \notin Completed
            /\ current_plan[k].task_id \notin Pending}

\* C13: every evaluation of the ready set selects exactly the steps whose
\* dependencies are all completed and that are neither completed nor pending,
\* and execute_task never starts a step with a dependency not yet completed.
C13_DependencyGating ==
    [][/\ (sys_pc = "loop" /\ sys_iteration < sys_max_iterations) =>
              {next_tasks'[i] : i \in 1..Len(next_tasks')} = Ready
       /\ \A k \in started_steps' \ started_steps :
              current_plan[k].dependencies \subseteq Completed
    ]_vars

\* a step with a dependency on another step is running, its dependency
\* completed, while a third step, whose dependency is not completed, has not
\* been started
C13_Witness ==
    /\ sys_pc = "gather"
    /\ \E k \in started_steps :
        /\ current_plan[k].dependencies # {}
        /\ current_plan[k].task_id \notin current_plan[k].dependencies
        /\ current_plan[k].dependencies \subseteq Completed
    /\ \E j \in 1..Len(current_plan) :
        /\ j \notin started_steps
        /\ ~(current_plan[j].dependencies \subseteq Completed)

\* the ids that can be completed at all: those of the steps all of whose
\* dependencies can be completed (the least such set; three rounds reach it
\* for plans of up to three steps)
Grow(ids) == ids \cup {current_plan[k].task_id :
                        k \in {j \in 1..Len(current_plan) :
                                  current_plan[j].dependencies \subseteq ids}}
Completable == Grow(Grow(Grow({})))
\* the steps that can never become ready: on a cycle, depending on
\* themselves, on an id of no step, or on such a step
Stuck == {k \in 1..Len(current_plan) : ~(current_plan[k].dependencies \subseteq Completable)}

\* C14: a step that can never become ready is never executed, and a run on a
\* plan with such a step returns the status blocked.
C14_UnresolvablePlanBlocked ==
    /\ started_steps \cap Stuck = {}
    /\ (sys_pc = "returned" /\ Stuck # {}) => sys_result = "blocked"

\* C15: no two entries of working memory carry the same id, and no remember
\* call is given an id that a durable row already has (which sqlite refuses
\* with IntegrityError).
C15_UniqueIds ==
    /\ \A i, j \in 1..Len(working_memory) :
          i # j => working_memory[i].id # working_memory[j].id
    /\ mem_last.op = "remember" => mem_last.raised # "IntegrityError"

\* whether an id names a memory of either tier
Held(wm, mem, memory_id) == FirstWithId(wm, memory_id) # 0 \/ memory_id \in DOMAIN mem

\* C16: forget of an id held by neither tier returns false and changes
\* nothing; forget of a held id returns true, and afterwards get_memory of the
\* id finds nothing and the id is held by neither tier (so that a second
\* forget returns false).
C16_ForgetIdempotent ==
    [][(mem_last'.op = "forget" /\ clock' = clock /\ remember_calls' = remember_calls) =>
        LET memory_id == mem_last'.id IN
        /\ mem_last'.raised = ""
        /\ IF Held(working_memory, memories, memory_id)
           THEN /\ mem_last'.ret = TRUE
                /\ get_memory(working_memory', memories', memory_id) = NoMemory
                /\ ~Held(working_memory', memories', memory_id)
           ELSE /\ mem_last'.ret = FALSE
                /\ working_memory' = working_memory
                /\ memories' = memories
                /\ memory_index' = memory_index
    ]_vars

\* the memories of either tier that match a query, each tier by its own test
Matching(query) ==
    {m \in ItemsOf(working_memory) : Contains(m.content, query)}
    \cup {[id |-> k] @@ memories[k] : k \in {j \in DOMAIN memories : Match(memories[j].content, query)}}

\* no two entries of working memory share an id
DistinctIds ==
    \A i, j \in 1..Len(working_memory) : i # j => working_memory[i].id # working_memory[j].id

\* C17: the list retrieve returned holds matching memories only, no id twice
\* and at most limit entries, and every matching memory whose id is not in it
\* is outranked or tied by limit entries of it (importance first, then the
\* more recent time stamp). Stated for working memories whose ids are
\* distinct, where de-duplication by id drops no memory.
C17_RetrieveMerges ==
    (mem_last.op = "retrieve" /\ DistinctIds) =>
        LET n == Len(retrieved)
            ids == {retrieved[i].id : i \in 1..n}
        IN  /\ n <= mem_last.limit
            /\ \A i, j \in 1..n : i # j => retrieved[i].id # retrieved[j].id
            /\ \A i \in 1..n : retrieved[i] \in Matching(mem_last.query)
            /\ \A m \in Matching(mem_last.query) :
                  m.id \notin ids =>
                      Cardinality({i \in 1..n : KeyAtLeast(retrieved[i], m)}) >= mem_last.limit

\* C18: every get_schema call on a tool returns the schema the first call
\* returned, and no parameter object of a returned schema has a required key.
C18_SchemaRepeatable ==
    \A i \in 1..Len(schemas) :
        /\ schemas[i] = schemas[1]
        /\ \A name \in ParamNames : "required" \notin DOMAIN schemas[i].properties[name]

\* ---------------------------------------------------------------------------
\* Memory manager: the importance of a memory stored without one
\* ---------------------------------------------------------------------------
\* the eviction key with a missing importance read as 0.5
DefaultedKey(m) ==
    Get(m.metadata, "importance", DefaultRowImportance) * TicksPerSecond
    + m.metadata.timestamp

\* C20 (as claimed): a memory stored without an importance counts as 0.5
\* wherever importance is read: the durable row written for it holds 0.5, and
\* a remember call that overflows working memory drops an entry whose key is
\* the least when a missing importance is read as 0.5.
C20_SameDefault ==
    [][remember_calls' = remember_calls + 1 =>
        LET c == mem_last'
            new == [oid |-> c.oid, id |-> c.ret, content |-> c.content,
                    metadata |-> IF c.importance = NoImportance
                                 THEN [timestamp |-> clock]
                                 ELSE [timestamp |-> clock, importance |-> c.importance]]
            all == ItemsOf(working_memory) \cup {new}
            gone == {m \in all : m.oid \notin Oids(ItemsOf(working_memory'))}
        IN  /\ (c.long_term /\ c.importance = NoImportance /\ c.raised = "")
                => memories'[c.ret].importance = DefaultRowImportance
            /\ (~GoesLongTerm(c.long_term, c.importance)
                 /\ Len(working_memory) = working_memory_capacity)
                => \A x \in gone : \A y \in all : DefaultedKey(x) <= DefaultedKey(y)
    ]_vars

\* ---------------------------------------------------------------------------
\* Memory manager: importance against recency
\* ---------------------------------------------------------------------------
\* the entries that carry an importance of their own
Rated(items) == {m \in items : "importance" \in DOMAIN m.metadata}

\* C22 (as claimed): on overflow of working memory an entry of strictly
\* higher importance is never the one dropped while an entry of strictly
\* lower importance is kept, whatever their time stamps.
C22_ImportanceDominates ==
    [][(/\ remember_calls' = remember_calls + 1
        /\ ~GoesLongTerm(mem_last'.long_term, mem_last'.importance)
        /\ Len(working_memory) = working_memory_capacity) =>
        LET c == mem_last'
            new == [oid |-> c.oid, id |-> c.ret, content |-> c.content,
                    metadata |-> IF c.importance = NoImportance
                                 THEN [timestamp |-> clock]
                                 ELSE [timestamp |-> clock, importance |-> c.importance]]
            all == ItemsOf(working_memory) \cup {new}
            kept == {m \in all : m.oid \in Oids(ItemsOf(working_memory'))}
            gone == all \ kept
        IN  \A x \in Rated(gone) : \A y \in Rated(kept) :
                y.metadata.importance >= x.metadata.importance
    ]_vars

\* ---------------------------------------------------------------------------
\* Durable store: the table and its search index
\* ---------------------------------------------------------------------------
IndexedIds == {row.id : row \in memory_index}

\* C24 (as claimed): in every committed state of the store the ids of the
\* memories table are the ids of the search index, and each index entry
\* holds the content of its row.
C24_IndexConsistent ==
    /\ IndexedIds = DOMAIN memories
    /\ \A row \in memory_index :
            row.id \in DOMAIN memories => row.content = memories[row.id].content

\* ---------------------------------------------------------------------------
\* MCPSystem: the barrier between batches
\* ---------------------------------------------------------------------------
\* the task ids of the steps execute_task was called for
StartedIds == {current_plan[k].task_id : k \in started_steps}

\* C25 (as claimed): the next batch is computed only when pending_tasks is
\* empty, and no task id is started more than once in a run: every call of
\* execute_task is for a step not started before whose id no started step has.
C25_BarrierBetweenBatches ==
    [][/\ (sys_pc = "loop" /\ sys_iteration < sys_max_iterations) => pending_tasks = << >>
       /\ Len(pending_tasks') > Len(pending_tasks) =>
            /\ started_steps' # started_steps
            /\ \A k \in started_steps' \ started_steps :
                    current_plan[k].task_id \notin StartedIds
    ]_vars

\* ---------------------------------------------------------------------------
\* MCPSystem: one flow of control per agent
\* ---------------------------------------------------------------------------
\* the tasks of the batch suspended inside generate_response of agent a
SuspendedIn(a) ==
    {k \in 1..Len(agent_batch) : agent_state[k] = "suspended" /\ AgentFor(agent_batch[k]) = a}

\* C26 (as claimed): while a plan step is suspended inside an agent's
\* generate_response no other running step of the batch appends to or reads
\* that agent's conversation history: at most one step is inside each agent
\* at a time.
C26_OneFlowPerAgent ==
    \A a \in AgentNames : Cardinality(SuspendedIn(a)) <= 1

\* ---------------------------------------------------------------------------
\* MCPSystem: the status of a fully executed plan
\* ---------------------------------------------------------------------------
\* every task of the plan is in completed_tasks
AllCompleted ==
    \A k \in 1..Len(current_plan) : InList(current_plan[k].task_id, completed_tasks)

\* C27 (as claimed): a run that leaves the loop with every task of the plan
\* completed is reported as success, never as in_progress.
C27_CompletedPlanReported ==
    (sys_pc = "returned" /\ AllCompleted) => sys_result = "success"

C29_WorkingMemoryBounded ==
    Len(working_memory) <= working_memory_capacity

\* C29 witness: more remember calls were made than the capacity, the last one
\* went to working memory, the first entry is gone and the list is full.
C29_Witness ==
    /\ mem_last.op = "remember"
    /\ ~GoesLongTerm(mem_last.long_term, mem_last.importance)
    /\ remember_calls > working_memory_capacity
    /\ Len(working_memory) = working_memory_capacity
    /\ \A i \in 1..Len(working_memory) : working_memory[i].oid > 1

\* the id remember returned for the dict object oid of a consolidate snapshot
IssuedId(snapshot, oid) ==
    LET at == CHOOSE k \in 1..Len(snapshot) : snapshot[k].oid = oid
    IN  snapshot[at].id

\* the entries the last consolidate call wrote to the durable tier and removed
\* from working memory
MovedIds ==
    {IssuedId(cons_snapshot, cons_added[k].oid) :
        k \in {n \in 1..Len(cons_added) : cons_added[n].raised = ""}}

\* C30: once consolidate has returned and nothing else was called, every
\* memory it moved is still returned by get_memory under the id remember gave
\* it, and forget of that id finds something to delete.
C30_ConsolidateKeepsIdentity ==
    (cons_pc = "done" /\ mem_last.op = "consolidate") =>
        \A memory_id \in MovedIds :
            /\ get_memory(working_memory, memories, memory_id) # NoMemory
            /\ \/ FirstWithId(working_memory, memory_id) # 0
               \/ SqliteMemory_delete(memories, memory_index, memory_id).ret

Init == ReactorInit /\ RegistryInit /\ ContextInit /\ MemoryInit /\ SystemInit /\ SchemaInit /\ LaterIdle /\ LaterIdle
Next == NextReactor \/ NextRegistry \/ NextContext \/ NextMemory \/ NextSystem \/ NextSchema
Spec == Init /\ [][Next]_vars
====
